---- MODULE Spec2Model ----
(***************************************************************************)
(* D3D12::Texture (src/src/common/d3d12/texture.cpp) as a state machine.   *)
(*                                                                         *)
(* The state is the texture objects, the three descriptor heap managers,   *)
(* the native resources with their reference counts, the deferred          *)
(* destruction list of the context, the texture stream buffer, and the     *)
(* commands of the last call (log).  Every member function is an operator  *)
(* from a world record to a world record, written statement by statement   *)
(* after the source; an action applies one member function.  A world also  *)
(* carries what a call leaves outside the state: its return value and the  *)
(* number of allocations it attempted.                                     *)
(* The collaborators whose code is not in texture.cpp (context, descriptor *)
(* heap manager, stream buffer, staging texture, GPUTexture base) follow   *)
(* the contracts of the specification.                                     *)
(*                                                                         *)
(* Spec        one texture object: Create, Adopt, Destroy and the GPU      *)
(*             passing the fence (descriptors, resources, the deferred     *)
(*             destruction list).                                          *)
(* SpecUpload  one texture object, created once with a sampled view:       *)
(*             TransitionToState, LoadData and the GPU passing the fence   *)
(*             (barriers, copies, the stream buffer, the staging texture). *)
(* SpecMove    two texture objects: constructor, destructor, Create,       *)
(*             Adopt, Destroy, move construction, move assignment and the  *)
(*             GPU passing the fence.                                      *)
(* SpecBarrier two texture objects: constructor, destructor, one Create,   *)
(*             Adopt, TransitionToState, both moves and the GPU passing    *)
(*             the fence (the tracked state and the state of the resource).*)
(* SpecCopy    CopyToUploadBuffer as the memcpy calls it makes, for the    *)
(*             strides and heights of CopyInputs.                          *)
(***************************************************************************)
EXTENDS Integers, Sequences, FiniteSets, Bags, TLC

\* ------------------------------------------------------------------ bounds

\* slots of each descriptor heap manager
PoolSize == 1
\* native resources the device can hold at once
MaxResources == 2
\* capacity of the texture stream buffer, in units of 256 bytes
StreamBufferUnits == 4
\* row strides, in bytes, and rows of the small buffers CopyToUploadBuffer is
\* applied to
MaxPitch == 4
MaxRows == 3

\* ------------------------------------------------------- program constants

MAX_WIDTH == 65535
MAX_HEIGHT == 65535
MAX_LAYERS == 255
MAX_LEVELS == 255
MAX_SAMPLES == 255
\* D3D12_TEXTURE_DATA_PITCH_ALIGNMENT, bytes
PITCH_ALIGNMENT == 256
\* D3D12_TEXTURE_DATA_PLACEMENT_ALIGNMENT, in units of 256 bytes (512 bytes)
PLACEMENT_ALIGNMENT == 2
\* 2^32 / 256: a u32 byte count that is a multiple of 256, in units of 256
U32Units == 16777216
INVALID_INDEX == 0

\* the texture objects: storage for two Texture objects, the source and the
\* destination of a move
Tex == {1, 2}
Res == 1..MaxResources
Slots == 1..PoolSize
Pools == {"SRV", "RTV", "DSV"}

STATE_COMMON == "COMMON"
STATE_PIXEL_SHADER_RESOURCE == "PIXEL_SHADER_RESOURCE"
STATE_RENDER_TARGET == "RENDER_TARGET"
STATE_DEPTH_WRITE == "DEPTH_WRITE"
STATE_COPY_DEST == "COPY_DEST"
\* the state of an upload heap resource (the staging texture) and of no resource
STATE_GENERIC_READ == "GENERIC_READ"
NoState == ""

States == {STATE_COMMON, STATE_PIXEL_SHADER_RESOURCE, STATE_RENDER_TARGET,
           STATE_DEPTH_WRITE, STATE_COPY_DEST}

DXGI_FORMAT_UNKNOWN == "UNKNOWN"

\* s_dxgi_mapping: GPUTexture::Format (0..6) -> DXGI_FORMAT
s_dxgi_mapping ==
  <<DXGI_FORMAT_UNKNOWN, "R8G8B8A8_UNORM", "B8G8R8A8_UNORM", "B5G6R5_UNORM",
    "B5G5R5A1_UNORM", "R8_UNORM", "D16_UNORM">>

\* GPUTexture::Format values are the indices of s_dxgi_mapping, from 0
FormatUnknown == 0

GetDXGIFormat(format) == s_dxgi_mapping[format + 1]

RECURSIVE LookupFrom(_, _)
LookupFrom(i, dformat) ==
  IF i >= Len(s_dxgi_mapping) THEN FormatUnknown
  ELSE IF s_dxgi_mapping[i + 1] = dformat THEN i
  ELSE LookupFrom(i + 1, dformat)

LookupBaseFormat(dformat) == LookupFrom(0, dformat)

\* GPUTexture::GetPixelSize(format): bytes per texel of the base format
PixelSizes == <<0, 4, 4, 2, 2, 1, 2>>
GetPixelSize(t) == PixelSizes[t.format + 1]

\* a cast that keeps seven bits
u8_SevenBits(x) == x % 128

u8(x) == x % 256
u16(x) == x % 65536

\* Common::AlignUpPow2
AlignUpPow2(value, alignment) == ((value + alignment - 1) \div alignment) * alignment

\* --------------------------------------------------------------- the state

VARIABLES
  tex,        \* tex[t]: the fields of texture object t
  alive,      \* alive[t]: object t is constructed
  heap,       \* heap[p]: the slots of descriptor heap manager p that are allocated
  refs,       \* refs[r]: reference count of native resource r (0: does not exist)
  resdesc,    \* resdesc[r]: D3D12_RESOURCE_DESC of resource r
  resstate,   \* resstate[r]: the state resource r is in once the commands recorded
              \* so far have executed (its initial state, then its last barrier's),
              \* kept until r is released or handed to deferred destruction: no
              \* barrier is recorded for it afterwards
  queue,      \* the context's deferred destruction list (a bag: its order decides nothing)
  sbOffset,   \* stream buffer: current offset (write cursor), units of 256 bytes
  sbInFlight, \* stream buffer: committed regions are still to be consumed by the GPU
  log,        \* what the last call recorded on the command list and did with the
              \* stream buffer and the staging texture, in order
  copy_args,  \* <<src_pitch, height, dst_pitch>> of a call of CopyToUploadBuffer
  copy_ops    \* the memcpy calls it made, in order (<<>> before the call; a
              \* one-element tuple holding them after it)

vars == <<tex, alive, heap, refs, resdesc, resstate, queue, sbOffset, sbInFlight, log,
          copy_args, copy_ops>>

\* DescriptorHandle: the slot index and the heap its cpu/gpu handles point into
NullHandle == [index |-> INVALID_INDEX, heap |-> "none"]

NullDesc == [Width |-> 0, Height |-> 0, DepthOrArraySize |-> 0, MipLevels |-> 0,
             SampleCount |-> 0, Format |-> DXGI_FORMAT_UNKNOWN]

\* Texture::Texture(): the default member initialisers
DefaultTexture ==
  [resource |-> 0, srv_descriptor |-> NullHandle, rtv_or_dsv_descriptor |-> NullHandle,
   is_depth_view |-> FALSE, state |-> STATE_COMMON,
   width |-> 0, height |-> 0, layers |-> 0, levels |-> 0, samples |-> 0,
   format |-> FormatUnknown]

World ==
  [tex |-> tex, heap |-> heap, refs |-> refs, resdesc |-> resdesc,
   resstate |-> resstate, queue |-> queue,
   sbOffset |-> sbOffset, sbInFlight |-> sbInFlight, log |-> <<>>, attempts |-> 0,
   ret |-> TRUE]

\* one entry of the log
Ev(kind) == [kind |-> kind, res |-> 0, from |-> "", to |-> "", size |-> 0,
             align |-> 0, offset |-> 0, ok |-> TRUE, defer |-> FALSE, tracked |-> ""]

Logged(w, e) == [w EXCEPT !.log = Append(@, e)]

Return(w, value) == [w EXCEPT !.ret = value]

\* ------------------------------------------------------------ collaborators

Min(S) == CHOOSE i \in S : \A j \in S : i <= j

\* DescriptorHeapManager::Allocate(dh) of heap manager `pool`:
\* [w: the world after, dh: the handle written, ok: the result]
HeapAllocate(w, pool) ==
  LET free == Slots \ w.heap[pool] IN
  IF free = {}
  THEN [w |-> [w EXCEPT !.attempts = @ + 1], dh |-> NullHandle, ok |-> FALSE]
  ELSE LET i == Min(free) IN
       [w |-> [w EXCEPT !.heap[pool] = @ \cup {i}, !.attempts = @ + 1],
        dh |-> [index |-> i, heap |-> pool], ok |-> TRUE]

\* DescriptorHeapManager::Free(dh) of heap manager `pool`; an empty handle is
\* ignored. The caller's handle is cleared (the callers below write NullHandle).
HeapFree(w, pool, dh) ==
  IF dh.index = INVALID_INDEX THEN w
  ELSE [w EXCEPT !.heap[pool] = @ \ {dh.index}]

\* Context::DeferDescriptorDestruction(manager, dh); an empty handle is ignored.
DeferDescriptorDestruction(w, pool, dh) ==
  IF dh.index = INVALID_INDEX THEN w
  ELSE [w EXCEPT !.queue = @ (+) SetToBag({[kind |-> "descriptor", pool |-> pool,
                                            index |-> dh.index, origin |-> dh.heap,
                                            res |-> 0]})]

\* ComPtr release of one reference; the resource is freed with its last one
Release(w, r) ==
  IF r = 0 THEN w
  ELSE IF w.refs[r] = 1
  THEN [w EXCEPT !.refs[r] = 0, !.resdesc[r] = NullDesc, !.resstate[r] = NoState]
  ELSE [w EXCEPT !.refs[r] = @ - 1]

\* Context::DeferResourceDestruction(resource): the list takes a reference
DeferResourceDestruction(w, r) ==
  IF r = 0 THEN w
  ELSE [w EXCEPT !.refs[r] = @ + 1, !.resstate[r] = NoState,
                 !.queue = @ (+) SetToBag({[kind |-> "resource", pool |-> "",
                                            index |-> 0, origin |-> "", res |-> r]})]

\* ID3D12Device::CreateCommittedResource: [w, resource, ok]. It fails when the
\* device reports failure (hrOk = FALSE) or holds MaxResources resources. The
\* resource starts in the state `state` (InitialResourceState).
CreateCommittedResource(w, desc, state, hrOk) ==
  LET free == {r \in Res : w.refs[r] = 0} IN
  IF ~hrOk \/ free = {}
  THEN [w |-> [w EXCEPT !.attempts = @ + 1], resource |-> 0, ok |-> FALSE]
  ELSE LET r == Min(free) IN
       [w |-> [w EXCEPT !.refs[r] = 1, !.resdesc[r] = desc, !.resstate[r] = state,
                        !.attempts = @ + 1],
        resource |-> r, ok |-> TRUE]

\* ResourceBarrier(cmdlist, resource, from, to): one barrier command recorded
ResourceBarrier(w, resource, from, to) ==
  Logged([w EXCEPT !.resstate[resource] = to],
         [Ev("barrier") EXCEPT !.res = resource, !.from = from, !.to = to])

\* ID3D12GraphicsCommandList::CopyTextureRegion(dst, ..., src, ...): one copy
\* command recorded; `tracked` is the tracked state of the destination object
\* at that moment
CopyTextureRegion(w, dst, src, offset, tracked) ==
  Logged(w, [Ev("copy") EXCEPT !.res = dst, !.from = src, !.offset = offset,
                               !.tracked = tracked])

\* Context::ExecuteCommandList(wait_for_completion = false): the command list
\* is submitted; the GPU may (gpuDone) or may not have consumed the stream
\* buffer regions of earlier work when the call returns
ExecuteCommandList(w, gpuDone) ==
  Logged([w EXCEPT !.sbInFlight = IF gpuDone THEN FALSE ELSE @], Ev("execute"))

\* StreamBuffer::GetSize(), units of 256 bytes
GetSize == StreamBufferUnits

\* StreamBuffer::ReserveMemory(num_bytes, alignment): [w, ok]. The region after
\* the aligned cursor is taken when it is large enough, else the cursor wraps to
\* the start when no committed region is in flight, else the call fails.
ReserveMemory(w, size, alignment) ==
  LET a == AlignUpPow2(w.sbOffset, alignment)
      e == [Ev("reserve") EXCEPT !.size = size, !.align = alignment]
  IN IF a + size <= GetSize
     THEN [w |-> Logged([w EXCEPT !.sbOffset = a], e), ok |-> TRUE]
     ELSE IF ~w.sbInFlight /\ size <= GetSize
     THEN [w |-> Logged([w EXCEPT !.sbOffset = 0], e), ok |-> TRUE]
     ELSE [w |-> Logged(w, [e EXCEPT !.ok = FALSE]), ok |-> FALSE]

\* StreamBuffer::CommitMemory(final_num_bytes)
CommitMemory(w, size) ==
  Logged([w EXCEPT !.sbOffset = @ + size, !.sbInFlight = TRUE],
         [Ev("commit") EXCEPT !.size = size, !.offset = w.sbOffset])

\* GPUTexture::ClearBaseProperties()
ClearBaseProperties(o) ==
  [o EXCEPT !.width = 0, !.height = 0, !.layers = 0, !.levels = 0, !.samples = 0,
            !.format = FormatUnknown]

\* ------------------------------------------------- staging texture (contract)

\* StagingTexture::Create(width, height, format, for_uploading): [w, resource, ok]
StagingCreate(w, width, height, format, hrOk) ==
  LET c == CreateCommittedResource(w, [Width |-> width, Height |-> height,
                                       DepthOrArraySize |-> 1, MipLevels |-> 1,
                                       SampleCount |-> 1, Format |-> format],
                                   STATE_GENERIC_READ, hrOk)
  IN [w |-> Logged(c.w, [Ev("staging_create") EXCEPT !.res = c.resource, !.ok = c.ok]),
      resource |-> c.resource, ok |-> c.ok]

\* StagingTexture::WritePixels(x, y, width, height, data, stride): [w, ok]
StagingWritePixels(w, st, writeOk) ==
  [w |-> Logged(w, [Ev("staging_write") EXCEPT !.res = st, !.ok = writeOk]),
   ok |-> writeOk]

\* StagingTexture::CopyToTexture(...): one staging-to-texture copy recorded
StagingCopyToTexture(w, st, dst, tracked) ==
  CopyTextureRegion(w, dst, "staging", 0, tracked)

\* StagingTexture::Destroy(defer): deferred, the resource goes to the deferred
\* destruction list; else it is released at once
StagingDestroy(w, st, defer) ==
  LET w1 == Logged(w, [Ev("staging_destroy") EXCEPT !.res = st, !.defer = defer])
  IN IF defer THEN Release(DeferResourceDestruction(w1, st), st)
     ELSE Release(w1, st)

\* ------------------------------------------------------------ D3D12::Texture

IsValid(o) == o.resource # 0

\* Texture::CreateSRVDescriptor / CreateRTVDescriptor / CreateDSVDescriptor:
\* one slot of the heap manager, then the view is written into it
CreateSRVDescriptor(w) == HeapAllocate(w, "SRV")
CreateRTVDescriptor(w) == HeapAllocate(w, "RTV")
CreateDSVDescriptor(w) == HeapAllocate(w, "DSV")

\* Texture::Destroy(bool defer)
Destroy(w, t, defer) ==
  LET o == w.tex[t]
      rtv_manager == IF o.is_depth_view THEN "DSV" ELSE "RTV"
      w1 == IF defer
            THEN Release(
                   DeferResourceDestruction(
                     DeferDescriptorDestruction(
                       DeferDescriptorDestruction(w, "SRV", o.srv_descriptor),
                       rtv_manager, o.rtv_or_dsv_descriptor),
                     o.resource),
                   o.resource)
            ELSE Release(
                   HeapFree(HeapFree(w, "SRV", o.srv_descriptor),
                            rtv_manager, o.rtv_or_dsv_descriptor),
                   o.resource)
  IN [w1 EXCEPT !.tex[t] =
        [ClearBaseProperties(o) EXCEPT !.srv_descriptor = NullHandle,
                                       !.rtv_or_dsv_descriptor = NullHandle,
                                       !.resource = 0,
                                       !.is_depth_view = FALSE]]

\* CreateDescriptors without its roll-back: a failure of the second allocation
\* keeps the sampled view's slot
CreateDescriptors_NoRollback(w, srv_format, rtv_format, dsv_format) ==
  LET none(x) == [w |-> x, dh |-> NullHandle, ok |-> TRUE]
      s == IF srv_format # DXGI_FORMAT_UNKNOWN THEN CreateSRVDescriptor(w) ELSE none(w)
      r == IF rtv_format # DXGI_FORMAT_UNKNOWN THEN CreateRTVDescriptor(s.w)
           ELSE IF dsv_format # DXGI_FORMAT_UNKNOWN THEN CreateDSVDescriptor(s.w)
           ELSE none(s.w)
  IN IF ~s.ok
     THEN [w |-> s.w, srv |-> NullHandle, rtv |-> NullHandle, is_depth_view |-> FALSE,
           ok |-> FALSE]
     ELSE IF ~r.ok
     THEN [w |-> r.w, srv |-> NullHandle, rtv |-> NullHandle,
           is_depth_view |-> FALSE, ok |-> FALSE]
     ELSE [w |-> r.w, srv |-> s.dh, rtv |-> r.dh,
           is_depth_view |-> rtv_format = DXGI_FORMAT_UNKNOWN
                             /\ dsv_format # DXGI_FORMAT_UNKNOWN,
           ok |-> TRUE]

\* Texture::Create, the descriptors of the new resource (lines 149-175):
\* [w, srv, rtv, is_depth_view, ok]; a failure gives back what was allocated
CreateDescriptors(w, srv_format, rtv_format, dsv_format) ==
  LET none(x) == [w |-> x, dh |-> NullHandle, ok |-> TRUE]
      s == IF srv_format # DXGI_FORMAT_UNKNOWN THEN CreateSRVDescriptor(w) ELSE none(w)
      r == IF rtv_format # DXGI_FORMAT_UNKNOWN THEN CreateRTVDescriptor(s.w)
           ELSE IF dsv_format # DXGI_FORMAT_UNKNOWN THEN CreateDSVDescriptor(s.w)
           ELSE none(s.w)
  IN IF ~s.ok
     THEN [w |-> s.w, srv |-> NullHandle, rtv |-> NullHandle, is_depth_view |-> FALSE,
           ok |-> FALSE]
     ELSE IF ~r.ok
     THEN [w |-> HeapFree(r.w, "SRV", s.dh), srv |-> NullHandle, rtv |-> NullHandle,
           is_depth_view |-> FALSE, ok |-> FALSE]
     ELSE [w |-> r.w, srv |-> s.dh, rtv |-> r.dh,
           is_depth_view |-> rtv_format = DXGI_FORMAT_UNKNOWN
                             /\ dsv_format # DXGI_FORMAT_UNKNOWN,
           ok |-> TRUE]

\* the initial state without the depth-stencil case
InitialState_NoDepth(rtv_format, dsv_format) ==
  IF rtv_format # DXGI_FORMAT_UNKNOWN THEN STATE_RENDER_TARGET
  ELSE STATE_PIXEL_SHADER_RESOURCE

\* Texture::Create, the state the resource is created in (lines 121-136)
InitialState(rtv_format, dsv_format) ==
  IF rtv_format # DXGI_FORMAT_UNKNOWN THEN STATE_RENDER_TARGET
  ELSE IF dsv_format # DXGI_FORMAT_UNKNOWN THEN STATE_DEPTH_WRITE
  ELSE STATE_PIXEL_SHADER_RESOURCE

\* Create in the other order: the previous contents are destroyed before the
\* new resource and descriptors are allocated
Create_DestroyFirst(w, t, width, height, layers, levels, samples, format, srv_format, rtv_format, dsv_format, hrOk) ==
  IF width > MAX_WIDTH \/ height > MAX_HEIGHT \/ layers > MAX_LAYERS
     \/ levels > MAX_LEVELS \/ samples > MAX_SAMPLES
  THEN Return(w, FALSE)
  ELSE
  LET desc == [Width |-> width, Height |-> u16(height),
               DepthOrArraySize |-> u16(layers), MipLevels |-> u16(levels),
               SampleCount |-> samples, Format |-> format]
      state == InitialState(rtv_format, dsv_format)
      w0 == Destroy(w, t, TRUE)
      c == CreateCommittedResource(w0, desc, state, hrOk)
      d == CreateDescriptors(c.w, srv_format, rtv_format, dsv_format)
  IN IF ~c.ok THEN Return(c.w, FALSE)
     ELSE IF ~d.ok THEN Return(Release(d.w, c.resource), FALSE)
     ELSE Return([d.w EXCEPT !.tex[t] =
                    [@ EXCEPT !.resource = c.resource,
                              !.srv_descriptor = d.srv,
                              !.rtv_or_dsv_descriptor = d.rtv,
                              !.width = u16(width),
                              !.height = u16(height),
                              !.layers = u8(layers),
                              !.levels = u8(levels),
                              !.samples = u8(samples),
                              !.format = LookupBaseFormat(format),
                              !.state = state,
                              !.is_depth_view = d.is_depth_view]], TRUE)

\* Texture::Create(width, height, layers, levels, samples, format, srv_format,
\* rtv_format, dsv_format, flags); hrOk is the device's answer
Create(w, t, width, height, layers, levels, samples, format, srv_format, rtv_format, dsv_format, hrOk) ==
  IF width > MAX_WIDTH \/ height > MAX_HEIGHT \/ layers > MAX_LAYERS
     \/ levels > MAX_LEVELS \/ samples > MAX_SAMPLES
  THEN Return(w, FALSE)
  ELSE
  LET desc == [Width |-> width, Height |-> u16(height),
               DepthOrArraySize |-> u16(layers), MipLevels |-> u16(levels),
               SampleCount |-> samples, Format |-> format]
      state == InitialState(rtv_format, dsv_format)
      c == CreateCommittedResource(w, desc, state, hrOk)
      d == CreateDescriptors(c.w, srv_format, rtv_format, dsv_format)
  IN IF ~c.ok THEN Return(c.w, FALSE)
     ELSE IF ~d.ok THEN Return(Release(d.w, c.resource), FALSE)
     ELSE Return([Destroy(d.w, t, TRUE) EXCEPT !.tex[t] =
                    [@ EXCEPT !.resource = c.resource,
                              !.srv_descriptor = d.srv,
                              !.rtv_or_dsv_descriptor = d.rtv,
                              !.width = u16(width),
                              !.height = u16(height),
                              !.layers = u8(layers),
                              !.levels = u8(levels),
                              !.samples = u8(samples),
                              !.format = LookupBaseFormat(format),
                              !.state = state,
                              !.is_depth_view = d.is_depth_view]], TRUE)

\* Texture::Adopt(texture, srv_format, rtv_format, dsv_format, state); `texture`
\* is the caller's reference, given up to the call
Adopt(w, t, texture, srv_format, rtv_format, dsv_format, state) ==
  LET desc == w.resdesc[texture]
      s == IF srv_format # DXGI_FORMAT_UNKNOWN THEN CreateSRVDescriptor(w)
           ELSE [w |-> w, dh |-> NullHandle, ok |-> TRUE]
  IN IF ~s.ok THEN Return(Release(s.w, texture), FALSE)
     ELSE
     LET w1 == [s.w EXCEPT !.tex[t].is_depth_view = FALSE]
         r == IF rtv_format # DXGI_FORMAT_UNKNOWN THEN CreateRTVDescriptor(w1)
              ELSE IF dsv_format # DXGI_FORMAT_UNKNOWN THEN CreateDSVDescriptor(w1)
              ELSE [w |-> w1, dh |-> NullHandle, ok |-> TRUE]
     IN IF ~r.ok
        THEN Return(Release(HeapFree(r.w, "SRV", s.dh), texture), FALSE)
        ELSE
        LET w2 == IF rtv_format = DXGI_FORMAT_UNKNOWN /\ dsv_format # DXGI_FORMAT_UNKNOWN
                  THEN [r.w EXCEPT !.tex[t].is_depth_view = TRUE]
                  ELSE r.w
            w3 == Release(w2, w2.tex[t].resource)
        IN Return([w3 EXCEPT !.tex[t] =
                     [@ EXCEPT !.resource = texture,
                               !.srv_descriptor = s.dh,
                               !.rtv_or_dsv_descriptor = r.dh,
                               !.width = u16(desc.Width),
                               !.height = u16(desc.Height),
                               !.layers = u8(desc.DepthOrArraySize),
                               !.levels = u8(desc.MipLevels),
                               !.samples = u8(desc.SampleCount),
                               !.format = LookupBaseFormat(desc.Format),
                               !.state = state]], TRUE)

\* TransitionToState without the comparison with the tracked state
TransitionToState_Always(w, t, state) ==
  [ResourceBarrier(w, w.tex[t].resource, w.tex[t].state, state)
     EXCEPT !.tex[t].state = state]

\* Texture::TransitionToState(state)
TransitionToState(w, t, state) ==
  IF w.tex[t].state = state THEN w
  ELSE [ResourceBarrier(w, w.tex[t].resource, w.tex[t].state, state)
          EXCEPT !.tex[t].state = state]

\* upload_size = copy_pitch * height in u32; copy_pitch is a multiple of 256,
\* so the product is kept in units of 256 bytes, modulo 2^32 / 256
UploadSize(copy_pitch, height) ==
  ((copy_pitch \div PITCH_ALIGNMENT) * height) % U32Units

\* BeginStreamUpdate that retries without submitting the command list
BeginStreamUpdate_NoExecute(w, t, width, height, gpuDone) ==
  LET copy_pitch == AlignUpPow2(width * GetPixelSize(w.tex[t]), PITCH_ALIGNMENT)
      upload_size == UploadSize(copy_pitch, height)
      r1 == ReserveMemory(w, upload_size, PLACEMENT_ALIGNMENT)
      r2 == ReserveMemory(r1.w, upload_size, PLACEMENT_ALIGNMENT)
      r == IF r1.ok THEN r1 ELSE r2
  IN [w |-> r.w, ok |-> r.ok, out_data |-> r.w.sbOffset, out_data_pitch |-> copy_pitch]

\* Texture::BeginStreamUpdate(x, y, width, height, out_data, out_data_pitch):
\* [w, ok, out_data, out_data_pitch]
BeginStreamUpdate(w, t, width, height, gpuDone) ==
  LET copy_pitch == AlignUpPow2(width * GetPixelSize(w.tex[t]), PITCH_ALIGNMENT)
      upload_size == UploadSize(copy_pitch, height)
      r1 == ReserveMemory(w, upload_size, PLACEMENT_ALIGNMENT)
      r2 == ReserveMemory(ExecuteCommandList(r1.w, gpuDone), upload_size,
                          PLACEMENT_ALIGNMENT)
      r == IF r1.ok THEN r1 ELSE r2
  IN [w |-> r.w, ok |-> r.ok, out_data |-> r.w.sbOffset, out_data_pitch |-> copy_pitch]

\* CopyFromBuffer that leaves the texture in the copy-destination state
CopyFromBuffer_NoRestore(w, t, buffer, buffer_offset) ==
  LET w1 == TransitionToState(w, t, STATE_COPY_DEST)
  IN CopyTextureRegion(w1, w1.tex[t].resource, buffer, buffer_offset, w1.tex[t].state)

\* Texture::CopyFromBuffer(x, y, width, height, pitch, buffer, buffer_offset)
CopyFromBuffer(w, t, buffer, buffer_offset) ==
  LET old_state == w.tex[t].state
      w1 == TransitionToState(w, t, STATE_COPY_DEST)
      w2 == CopyTextureRegion(w1, w1.tex[t].resource, buffer, buffer_offset,
                              w1.tex[t].state)
  IN TransitionToState(w2, t, old_state)

\* EndStreamUpdate that reads the offset of the stream buffer after the commit
EndStreamUpdate_OffsetAfterCommit(w, t, width, height) ==
  LET copy_pitch == AlignUpPow2(width * GetPixelSize(w.tex[t]), PITCH_ALIGNMENT)
      upload_size == UploadSize(copy_pitch, height)
      w1 == CommitMemory(w, upload_size)
  IN CopyFromBuffer(w1, t, "stream", w1.sbOffset)

\* Texture::EndStreamUpdate(x, y, width, height)
EndStreamUpdate(w, t, width, height) ==
  LET copy_pitch == AlignUpPow2(width * GetPixelSize(w.tex[t]), PITCH_ALIGNMENT)
      upload_size == UploadSize(copy_pitch, height)
      sb_offset == w.sbOffset
  IN CopyFromBuffer(CommitMemory(w, upload_size), t, "stream", sb_offset)

\* a byte count n as units of 256 bytes and the bytes left
Size(n) == [units |-> n \div PITCH_ALIGNMENT, bytes |-> n % PITCH_ALIGNMENT]

\* pitch * height in u32, as units of 256 bytes and the bytes left
U32Product(pitch, height) ==
  LET lo == (pitch % PITCH_ALIGNMENT) * height
  IN [units |-> ((pitch \div PITCH_ALIGNMENT) * height + lo \div PITCH_ALIGNMENT) % U32Units,
      bytes |-> lo % PITCH_ALIGNMENT]

\* memcpy(dst_data + dst, src_data + src, size)
Memcpy(dst, src, size) == [dst |-> dst, src |-> src, size |-> size]

\* Texture::CopyToUploadBuffer(src_data, src_pitch, height, dst_data, dst_pitch):
\* the memcpy calls it makes, in order
CopyToUploadBuffer(src_pitch, height, dst_pitch) ==
  IF src_pitch = dst_pitch
  THEN <<Memcpy(0, 0, U32Product(dst_pitch, height))>>
  ELSE LET copy_size == IF src_pitch < dst_pitch THEN src_pitch ELSE dst_pitch
       IN [row \in 1..height |->
             Memcpy((row - 1) * dst_pitch, (row - 1) * src_pitch, Size(copy_size))]

\* Texture::CopyToUploadBuffer(src_data, src_pitch, height, dst_data, dst_pitch)
\* as LoadData calls it: the rows are written to host memory at dst_data
WriteUploadBuffer(w, height, dst_data, dst_pitch) ==
  Logged(w, [Ev("write") EXCEPT !.offset = dst_data,
                                !.size = UploadSize(dst_pitch, height)])

\* the choice of the path with the comparison the other way at the capacity
UseStaging_Above(upload_size) == upload_size > GetSize

\* Texture::LoadData, the choice of the path (line 341)
UseStaging(upload_size) == upload_size >= GetSize

\* LoadData whose staging path transitions the texture before the staging
\* texture is created and written
LoadData_TransitionFirst(w, t, width, height, gpuDone, stCreateOk, stWriteOk) ==
  LET o == w.tex[t]
      texel_size == GetPixelSize(o)
      upload_pitch == AlignUpPow2(width * texel_size, PITCH_ALIGNMENT)
      upload_size == UploadSize(upload_pitch, height)
  IN IF UseStaging(upload_size)
     THEN
       LET old_state == o.state
           w0 == TransitionToState(w, t, STATE_COPY_DEST)
           c == StagingCreate(w0, width, height, GetDXGIFormat(o.format), stCreateOk)
           p == StagingWritePixels(c.w, c.resource, stWriteOk)
       IN IF ~c.ok THEN Return(c.w, FALSE)
          ELSE IF ~p.ok THEN Return(StagingDestroy(p.w, c.resource, TRUE), FALSE)
          ELSE
          LET w2 == StagingCopyToTexture(p.w, c.resource, p.w.tex[t].resource,
                                         p.w.tex[t].state)
              w3 == StagingDestroy(w2, c.resource, TRUE)
          IN Return(TransitionToState(w3, t, old_state), TRUE)
     ELSE
       LET b == BeginStreamUpdate(w, t, width, height, gpuDone)
       IN IF ~b.ok THEN Return(b.w, FALSE)
          ELSE Return(EndStreamUpdate(
                        WriteUploadBuffer(b.w, height, b.out_data, b.out_data_pitch),
                        t, width, height), TRUE)

\* Texture::LoadData(x, y, width, height, data, pitch); gpuDone, stCreateOk and
\* stWriteOk are the answers of the GPU and of the staging texture
LoadData(w, t, width, height, gpuDone, stCreateOk, stWriteOk) ==
  LET o == w.tex[t]
      texel_size == GetPixelSize(o)
      upload_pitch == AlignUpPow2(width * texel_size, PITCH_ALIGNMENT)
      upload_size == UploadSize(upload_pitch, height)
  IN IF UseStaging(upload_size)
     THEN
       LET c == StagingCreate(w, width, height, GetDXGIFormat(o.format), stCreateOk)
           p == StagingWritePixels(c.w, c.resource, stWriteOk)
       IN IF ~c.ok THEN Return(c.w, FALSE)
          ELSE IF ~p.ok THEN Return(StagingDestroy(p.w, c.resource, TRUE), FALSE)
          ELSE
          LET old_state == o.state
              w1 == TransitionToState(p.w, t, STATE_COPY_DEST)
              w2 == StagingCopyToTexture(w1, c.resource, w1.tex[t].resource,
                                         w1.tex[t].state)
              w3 == StagingDestroy(w2, c.resource, TRUE)
          IN Return(TransitionToState(w3, t, old_state), TRUE)
     ELSE
       LET b == BeginStreamUpdate(w, t, width, height, gpuDone)
       IN IF ~b.ok THEN Return(b.w, FALSE)
          ELSE Return(EndStreamUpdate(
                        WriteUploadBuffer(b.w, height, b.out_data, b.out_data_pitch),
                        t, width, height), TRUE)

\* Texture::Texture(Texture&& texture): object dst is constructed from src
MoveConstruct(w, dst, src) ==
  LET texture == w.tex[src]
      new == [DefaultTexture EXCEPT !.resource = texture.resource,
                                    !.srv_descriptor = texture.srv_descriptor,
                                    !.rtv_or_dsv_descriptor = texture.rtv_or_dsv_descriptor,
                                    !.is_depth_view = texture.is_depth_view,
                                    !.width = texture.width,
                                    !.height = texture.height,
                                    !.layers = texture.layers,
                                    !.levels = texture.levels,
                                    !.samples = texture.samples]
      old == [ClearBaseProperties(texture) EXCEPT !.resource = 0,
                                                  !.srv_descriptor = NullHandle,
                                                  !.rtv_or_dsv_descriptor = NullHandle,
                                                  !.state = STATE_COMMON,
                                                  !.is_depth_view = FALSE]
  IN [w EXCEPT !.tex[dst] = new, !.tex[src] = old]

\* Texture::operator=(Texture&& texture): dst = std::move(src)
MoveAssign(w, dst, src) ==
  LET d == Destroy(w, dst, TRUE)
      texture == d.tex[src]
      new == [d.tex[dst] EXCEPT !.width = texture.width,
                                !.height = texture.height,
                                !.layers = texture.layers,
                                !.levels = texture.levels,
                                !.samples = texture.samples,
                                !.resource = texture.resource,
                                !.srv_descriptor = texture.srv_descriptor,
                                !.rtv_or_dsv_descriptor = texture.rtv_or_dsv_descriptor,
                                !.state = texture.state,
                                !.is_depth_view = texture.is_depth_view]
      old == [ClearBaseProperties(texture) EXCEPT !.resource = 0,
                                                  !.srv_descriptor = NullHandle,
                                                  !.rtv_or_dsv_descriptor = NullHandle,
                                                  !.state = STATE_COMMON,
                                                  !.is_depth_view = FALSE]
  IN [d EXCEPT !.tex[dst] = new, !.tex[src] = old]

\* Texture::~Texture()
Destruct(w, t) == Destroy(w, t, TRUE)

\* -------------------------------------------------------------- environment

\* The context's deferred destruction, when the GPU has passed the fence: every
\* pending descriptor goes back to the heap manager it was queued with, every
\* pending resource loses the list's reference
RECURSIVE DestroyPendingResources(_, _)
DestroyPendingResources(w, q) ==
  IF q = EmptyBag THEN w
  ELSE LET e == CHOOSE x \in BagToSet(q) : TRUE
           w1 == IF e.kind = "descriptor"
                 THEN HeapFree(w, e.pool, [index |-> e.index, heap |-> e.origin])
                 ELSE Release(w, e.res)
       IN DestroyPendingResources(w1, q (-) SetToBag({e}))

\* ------------------------------------------------------------------ inputs

\* (width, height, layers, levels, samples) within the maxima
ValidDims == {<<256, 256, 1, 1, 1>>}

\* one dimension above its maximum, for each dimension
InvalidDims ==
  {<<MAX_WIDTH + 1, 256, 1, 1, 1>>, <<256, MAX_HEIGHT + 1, 1, 1, 1>>,
   <<256, 256, MAX_LAYERS + 1, 1, 1>>, <<256, 256, 1, MAX_LEVELS + 1, 1>>,
   <<256, 256, 1, 1, MAX_SAMPLES + 1>>}

\* (srv_format, rtv_format, dsv_format) for a resource of format f: every
\* combination the caller contract allows (never both rtv and dsv)
ViewFormats(f) ==
  {v \in {DXGI_FORMAT_UNKNOWN, f} \X {DXGI_FORMAT_UNKNOWN, f}
         \X {DXGI_FORMAT_UNKNOWN, "D16_UNORM"} :
     v[2] = DXGI_FORMAT_UNKNOWN \/ v[3] = DXGI_FORMAT_UNKNOWN}

\* the arguments of Create: <<dims, format, views, hrOk>>
CreateInputs ==
  {<<d, "R8G8B8A8_UNORM", v, TRUE>> : d \in ValidDims, v \in ViewFormats("R8G8B8A8_UNORM")}
  \cup {<<d, "R8G8B8A8_UNORM", <<"R8G8B8A8_UNORM", "R8G8B8A8_UNORM", DXGI_FORMAT_UNKNOWN>>, FALSE>> :
          d \in ValidDims}
  \cup {<<d, "R8G8B8A8_UNORM", <<"R8G8B8A8_UNORM", "R8G8B8A8_UNORM", DXGI_FORMAT_UNKNOWN>>, TRUE>> :
          d \in InvalidDims}

\* descriptions of the resources given to Adopt
AdoptDescs ==
  {[Width |-> 256, Height |-> 256, DepthOrArraySize |-> 1, MipLevels |-> 1,
    SampleCount |-> 1, Format |-> "R8G8B8A8_UNORM"]}

AdoptStates == {STATE_COMMON}

\* upload rectangles given to LoadData: with 4-byte texels the rows take one
\* or two units of 256 bytes, and the sizes lie below, at and above the capacity
\* of the stream buffer
LoadWidths == {64, 65}
LoadHeights == {1, 3, StreamBufferUnits}

\* <<gpuDone, stCreateOk, stWriteOk>>: all collaborators answer well, or one of
\* them does not
LoadAnswers ==
  {<<TRUE, TRUE, TRUE>>, <<FALSE, TRUE, TRUE>>, <<TRUE, FALSE, TRUE>>,
   <<TRUE, TRUE, FALSE>>}

\* <<src_pitch, height, dst_pitch>> given to CopyToUploadBuffer: small buffers
\* with every pair of strides, and the rows of the widest texture (65535
\* texels of 4 bytes, 262144 bytes a row in the upload buffer) for heights
\* around 2^32 / 262144
CopyInputs ==
  {<<sp, h, dp>> : sp \in 1..MaxPitch, h \in 0..MaxRows, dp \in 1..MaxPitch}
  \cup {<<262144, h, 262144>> : h \in {16383, 16384, 16385}}

\* ----------------------------------------------------------------- actions

Init ==
  /\ tex = [t \in Tex |-> DefaultTexture]
  /\ alive = [t \in Tex |-> t = 1]
  /\ heap = [p \in Pools |-> {}]
  /\ refs = [r \in Res |-> 0]
  /\ resdesc = [r \in Res |-> NullDesc]
  /\ resstate = [r \in Res |-> NoState]
  /\ queue = EmptyBag
  /\ sbOffset = 0
  /\ sbInFlight = FALSE
  /\ log = <<>>
  /\ copy_args = <<0, 0, 0>>
  /\ copy_ops = <<>>

\* the world w a call leaves becomes the state
Becomes(w) ==
  /\ tex' = w.tex
  /\ heap' = w.heap
  /\ refs' = w.refs
  /\ resdesc' = w.resdesc
  /\ resstate' = w.resstate
  /\ queue' = w.queue
  /\ sbOffset' = w.sbOffset
  /\ sbInFlight' = w.sbInFlight
  /\ log' = w.log
  /\ UNCHANGED <<copy_args, copy_ops>>

\* Texture::Texture()
CallConstructor(t) ==
  /\ ~alive[t]
  /\ alive' = [alive EXCEPT ![t] = TRUE]
  /\ Becomes([World EXCEPT !.tex[t] = DefaultTexture])

\* Texture::~Texture(); the storage of the object is gone afterwards
CallDestructor(t) ==
  /\ alive[t]
  /\ alive' = [alive EXCEPT ![t] = FALSE]
  /\ Becomes([Destruct(World, t) EXCEPT !.tex[t] = DefaultTexture])

\* the world Create leaves for the arguments i of CreateInputs
CreateWith(t, i) ==
  Create(World, t, i[1][1], i[1][2], i[1][3], i[1][4], i[1][5], i[2],
         i[3][1], i[3][2], i[3][3], i[4])

CallCreate(t) ==
  /\ alive[t]
  /\ \E i \in CreateInputs : Becomes(CreateWith(t, i))
  /\ UNCHANGED alive

\* the caller obtains a resource (a swap chain buffer) and gives it to Adopt
CallAdopt(t) ==
  /\ alive[t]
  /\ \E desc \in AdoptDescs, state \in AdoptStates :
       \E v \in ViewFormats(desc.Format) :
         LET c == CreateCommittedResource(World, desc, state, TRUE)
         IN /\ c.ok
            /\ Becomes(Adopt([c.w EXCEPT !.attempts = 0], t, c.resource, v[1], v[2], v[3],
                             state))
  /\ UNCHANGED alive

CallDestroy(t) ==
  /\ alive[t]
  /\ \E defer \in BOOLEAN :
       Becomes(Destroy(World, t, defer))
  /\ UNCHANGED alive

\* callers transition and upload to textures that hold a resource
CallTransitionToState(t) ==
  /\ alive[t]
  /\ IsValid(tex[t])
  /\ \E state \in States :
       Becomes(TransitionToState(World, t, state))
  /\ UNCHANGED alive

CallLoadData(t) ==
  /\ alive[t]
  /\ IsValid(tex[t])
  /\ \E width \in LoadWidths, height \in LoadHeights, a \in LoadAnswers :
       Becomes(LoadData(World, t, width, height, a[1], a[2], a[3]))
  /\ UNCHANGED alive

CallMoveConstruct(dst, src) ==
  /\ alive[src]
  /\ ~alive[dst]
  /\ alive' = [alive EXCEPT ![dst] = TRUE]
  /\ Becomes(MoveConstruct(World, dst, src))

CallMoveAssign(dst, src) ==
  /\ alive[src]
  /\ alive[dst]
  /\ dst # src
  /\ Becomes(MoveAssign(World, dst, src))
  /\ UNCHANGED alive

\* the GPU passes the fence of everything submitted so far
GpuCompletes ==
  /\ queue # EmptyBag \/ sbInFlight
  /\ Becomes([DestroyPendingResources([World EXCEPT !.queue = EmptyBag], queue)
                EXCEPT !.sbInFlight = FALSE])
  /\ UNCHANGED alive

\* the arguments of Create for a texture that is uploaded to: it is sampled,
\* and may be a render target
SampledInputs ==
  {i \in CreateInputs : i[3][1] # DXGI_FORMAT_UNKNOWN /\ i[3][3] = DXGI_FORMAT_UNKNOWN}

\* the caller creates the texture once, before it uploads to it
CallFirstCreate(t) ==
  /\ alive[t]
  /\ ~IsValid(tex[t])
  /\ \E i \in SampledInputs : Becomes(CreateWith(t, i))
  /\ UNCHANGED alive

Next ==
  \/ \E t \in Tex : CallCreate(t)
  \/ \E t \in Tex : CallAdopt(t)
  \/ \E t \in Tex : CallDestroy(t)
  \/ GpuCompletes

Spec == Init /\ [][Next]_vars

NextUpload ==
  \/ \E t \in Tex : CallFirstCreate(t)
  \/ \E t \in Tex : CallTransitionToState(t)
  \/ \E t \in Tex : CallLoadData(t)
  \/ GpuCompletes

SpecUpload == Init /\ [][NextUpload]_vars

NextMove ==
  \/ \E t \in Tex : CallConstructor(t)
  \/ \E t \in Tex : CallDestructor(t)
  \/ \E t \in Tex : CallCreate(t)
  \/ \E t \in Tex : CallAdopt(t)
  \/ \E t \in Tex : CallDestroy(t)
  \/ \E dst \in Tex, src \in Tex : CallMoveConstruct(dst, src)
  \/ \E dst \in Tex, src \in Tex : CallMoveAssign(dst, src)
  \/ GpuCompletes

SpecMove == Init /\ [][NextMove]_vars

\* the callers that record barriers, and the moves between them
NextBarrier ==
  \/ \E t \in Tex : CallConstructor(t)
  \/ \E t \in Tex : CallDestructor(t)
  \/ \E t \in Tex : CallFirstCreate(t)
  \/ \E t \in Tex : CallAdopt(t)
  \/ \E t \in Tex : CallTransitionToState(t)
  \/ \E dst \in Tex, src \in Tex : CallMoveConstruct(dst, src)
  \/ \E dst \in Tex, src \in Tex : CallMoveAssign(dst, src)
  \/ GpuCompletes

SpecBarrier == Init /\ [][NextBarrier]_vars

\* CopyToUploadBuffer alone, applied once to each of CopyInputs
InitCopy ==
  /\ tex = [t \in Tex |-> DefaultTexture]
  /\ alive = [t \in Tex |-> t = 1]
  /\ heap = [p \in Pools |-> {}]
  /\ refs = [r \in Res |-> 0]
  /\ resdesc = [r \in Res |-> NullDesc]
  /\ resstate = [r \in Res |-> NoState]
  /\ queue = EmptyBag
  /\ sbOffset = 0
  /\ sbInFlight = FALSE
  /\ log = <<>>
  /\ copy_args \in CopyInputs
  /\ copy_ops = <<>>

CallCopyToUploadBuffer ==
  /\ copy_ops = <<>>
  /\ copy_ops' = <<CopyToUploadBuffer(copy_args[1], copy_args[2], copy_args[3])>>
  /\ UNCHANGED <<tex, alive, heap, refs, resdesc, resstate, queue, sbOffset, sbInFlight,
                 log, copy_args>>

NextCopy == CallCopyToUploadBuffer

SpecCopy == InitCopy /\ [][NextCopy]_vars

\* ------------------------------------------------------------------ claims
\* A claim about what a call does is stated of every call the caller can make
\* in a reachable state: the call is applied to the state (World, whose log is
\* empty and whose counters are zero) and the world it leaves is compared with
\* the state.

Valid(h) == h.index # INVALID_INDEX

\* the handles a texture object owns: its resource and its descriptors
OwnedHandles(o) ==
  (IF o.resource # 0 THEN 1 ELSE 0) + (IF Valid(o.srv_descriptor) THEN 1 ELSE 0)
  + (IF Valid(o.rtv_or_dsv_descriptor) THEN 1 ELSE 0)

\* the slots of heap manager p that object o holds descriptors of
SlotsHeld(o, p) ==
  {h.index : h \in {d \in {o.srv_descriptor, o.rtv_or_dsv_descriptor} :
                      Valid(d) /\ d.heap = p}}

CanonicalEmpty(o) ==
  /\ o.width = 0 /\ o.height = 0 /\ o.layers = 0 /\ o.levels = 0 /\ o.samples = 0
  /\ ~Valid(o.srv_descriptor)
  /\ ~Valid(o.rtv_or_dsv_descriptor)
  /\ o.is_depth_view = FALSE
  /\ o.state = STATE_COMMON

Objects == {t \in Tex : alive[t]}

DimsValid(d) ==
  d[1] <= MAX_WIDTH /\ d[2] <= MAX_HEIGHT /\ d[3] <= MAX_LAYERS /\ d[4] <= MAX_LEVELS
  /\ d[5] <= MAX_SAMPLES

\* the arguments of Adopt: <<desc, views, state>>
AdoptInputs ==
  {<<desc, v, state>> : desc \in AdoptDescs, v \in ViewFormats("R8G8B8A8_UNORM"),
                        state \in AdoptStates}

\* the world Adopt leaves for the arguments i of AdoptInputs, given the
\* resource the caller obtained (r.resource, in the world r.w)
AdoptWith(t, i, r) ==
  Adopt([r.w EXCEPT !.attempts = 0], t, r.resource, i[2][1], i[2][2], i[2][3], i[3])

\* C1: Destroy(deferred = true) frees nothing during the call: the deferred
\* destruction list grows by the number of handles the object owns (its
\* resource and each descriptor), no heap manager's allocated slots change and
\* the resource keeps a reference; Destroy(deferred = false) returns each owned
\* descriptor to the heap manager it was allocated from, releases the resource
\* and adds nothing to the list. (The original claim.)
C1_DestroyDeferredOrImmediate ==
  \A t \in Objects :
    LET o == tex[t]
        d == Destroy(World, t, TRUE)
        n == Destroy(World, t, FALSE)
    IN /\ BagCardinality(d.queue) = BagCardinality(queue) + OwnedHandles(o)
       /\ d.heap = heap
       /\ d.refs = refs
       /\ n.queue = queue
       /\ \A p \in Pools : n.heap[p] = heap[p] \ SlotsHeld(o, p)
       /\ o.resource # 0 => n.refs[o.resource] = refs[o.resource] - 1

\* C2: an object whose resource handle is null is in the canonical empty state:
\* zero dimensions, no descriptors, no depth-view flag, the default usage
\* state. (The original claim.)
C2_NullResourceIsCanonicalEmpty ==
  \A t \in Objects : tex[t].resource = 0 => CanonicalEmpty(tex[t])

\* C3: when Create returns failure, every field of the object is what it was
\* before the call and nothing was handed to the deferred destruction list; a
\* dimension above its maximum fails before any resource or descriptor
\* allocation is attempted.
C3_CreateFailureLeavesObject ==
  \A t \in Objects : \A i \in CreateInputs :
    LET w == CreateWith(t, i)
    IN /\ ~DimsValid(i[1]) => ~w.ret /\ w.attempts = 0
       /\ ~w.ret => w.tex = tex /\ w.queue = queue

\* C3, witness: an object that owns a resource and both descriptors, on which
\* Create fails in each of its three ways: for a dimension, at the resource,
\* and at a descriptor
C3_Witness ==
  \E t \in Objects :
    /\ OwnedHandles(tex[t]) = 3
    /\ \E i \in CreateInputs : ~DimsValid(i[1]) /\ ~CreateWith(t, i).ret
    /\ \E i \in CreateInputs : ~CreateWith(t, i).ret /\ CreateWith(t, i).attempts = 1
    /\ \E i \in CreateInputs : ~CreateWith(t, i).ret /\ CreateWith(t, i).attempts = 2

\* C4: when Create fails because a heap manager cannot give a descriptor, the
\* descriptors allocated earlier in the call are back in their heap managers
\* and the new resource is released: every heap manager's allocated slots and
\* every resource's reference count are what they were before the call.
C4_CreateRollsBackDescriptors ==
  \A t \in Objects : \A i \in CreateInputs :
    LET w == CreateWith(t, i)
    IN ~w.ret /\ w.attempts >= 2 =>
         /\ w.heap = heap
         /\ w.refs = refs
         /\ w.resdesc = resdesc

\* C4, witness: the sampled-view heap has a free slot and Create fails at the
\* render-target or depth-stencil descriptor, after the sampled view's
C4_Witness ==
  \E t \in Objects : \E i \in CreateInputs :
    /\ heap["SRV"] # Slots
    /\ i[3][1] # DXGI_FORMAT_UNKNOWN
    /\ ~CreateWith(t, i).ret
    /\ CreateWith(t, i).attempts = 3

\* C5: when Adopt returns failure, the descriptors it allocated are back in
\* their heap managers and no field of the object has changed. (The original
\* claim.)
C5_AdoptFailureLeavesObject ==
  \A t \in Objects : \A i \in AdoptInputs :
    LET r == CreateCommittedResource(World, i[1], i[3], TRUE)
        w == AdoptWith(t, i, r)
    IN r.ok /\ ~w.ret => w.tex[t] = tex[t] /\ w.heap = heap

\* the arguments of LoadData: <<width, height, gpuDone, stCreateOk, stWriteOk>>
LoadInputs ==
  {<<width, height, a[1], a[2], a[3]>> :
     width \in LoadWidths, height \in LoadHeights, a \in LoadAnswers}

\* the world LoadData leaves for the arguments i of LoadInputs
LoadWith(t, i) == LoadData(World, t, i[1], i[2], i[3], i[4], i[5])

\* the upload size of the claims: the row stride aligned to 256 bytes, times
\* the height; in units of 256 bytes, as GetSize
StrideTimesHeight(t, i) ==
  (AlignUpPow2(i[1] * GetPixelSize(tex[t]), PITCH_ALIGNMENT) \div PITCH_ALIGNMENT) * i[2]

\* textures that hold a resource
Textures == {t \in Objects : IsValid(tex[t])}

OfKind(l, K) == SelectSeq(l, LAMBDA e : e.kind \in K)
KindsOf(l) == {l[k].kind : k \in DOMAIN l}
StagingKinds == {"staging_create", "staging_write", "staging_destroy"}
StreamKinds == {"reserve", "execute", "write", "commit"}

\* C6: TransitionToState(S) records nothing and changes nothing when the
\* tracked state is S; otherwise it records exactly one barrier, of the
\* texture's resource from the tracked state to S, sets the tracked state to S
\* and changes nothing else. A second TransitionToState(S) after the first
\* records nothing and changes nothing.
C6_TransitionToStateOnce ==
  \A t \in Textures : \A S \in States :
    LET w1 == TransitionToState(World, t, S)
        w2 == TransitionToState(w1, t, S)
    IN /\ tex[t].state = S => w1 = World
       /\ tex[t].state # S =>
            /\ w1.log = <<[Ev("barrier") EXCEPT !.res = tex[t].resource,
                                               !.from = tex[t].state, !.to = S]>>
            /\ w1.tex = [tex EXCEPT ![t].state = S]
            /\ w1.resstate = [resstate EXCEPT ![tex[t].resource] = S]
            /\ [w1 EXCEPT !.log = <<>>, !.tex = tex, !.resstate = resstate] = World
       /\ w2 = w1

\* C6, witness: a transition to another state has recorded its one barrier and
\* the texture is in the state it names
C6_Witness ==
  \E t \in Textures :
    /\ Len(log) = 1
    /\ log[1].kind = "barrier"
    /\ log[1].from # log[1].to
    /\ log[1].to = tex[t].state
    /\ TransitionToState(World, t, tex[t].state) = World

\* C7: LoadData takes the streaming path (a reservation, no staging texture)
\* when the aligned row stride times the height is below the stream buffer's
\* capacity, and the staging path (a staging texture, no reservation and no
\* commit) when it is at or above the capacity; never both.
C7_LoadDataChoosesPath ==
  \A t \in Textures : \A i \in LoadInputs :
    LET kinds == KindsOf(LoadWith(t, i).log)
    IN /\ StrideTimesHeight(t, i) < GetSize =>
            "reserve" \in kinds /\ kinds \cap StagingKinds = {}
       /\ StrideTimesHeight(t, i) >= GetSize =>
            "staging_create" \in kinds /\ kinds \cap StreamKinds = {}

\* C7, witness: a staging upload has been made; an upload of exactly the
\* capacity takes the staging path and one of a unit less the streaming path
C7_Witness ==
  \E t \in Textures :
    /\ log # <<>> /\ log[1].kind = "staging_create" /\ log[Len(log)].kind = "barrier"
    /\ \E i \in LoadInputs :
         /\ StrideTimesHeight(t, i) = GetSize
         /\ "staging_create" \in KindsOf(LoadWith(t, i).log)
    /\ \E i \in LoadInputs :
         /\ StrideTimesHeight(t, i) = GetSize - 1
         /\ "reserve" \in KindsOf(LoadWith(t, i).log)

\* what the claims read of a recorded command
Command(e) ==
  IF e.kind = "copy" THEN <<"copy", e.res, e.tracked>> ELSE <<"barrier", e.res, e.from, e.to>>

Commands(l) ==
  LET c == OfKind(l, {"barrier", "copy"}) IN [k \in DOMAIN c |-> Command(c[k])]

\* C8: a successful LoadData records exactly one copy, to the texture's
\* resource while the tracked state is copy-destination, and returns with the
\* tracked state it was called with; its barriers are one from that state to
\* copy-destination before the copy and one back after it (none when the
\* texture was in copy-destination already).
C8_LoadDataCopiesInCopyDest ==
  \A t \in Textures : \A i \in LoadInputs :
    LET w == LoadWith(t, i)
        old == tex[t].state
        r == tex[t].resource
        copy == <<"copy", r, STATE_COPY_DEST>>
    IN w.ret =>
         /\ w.tex[t].state = old
         /\ Len(OfKind(w.log, {"copy"})) = 1
         /\ Commands(w.log) =
              IF old = STATE_COPY_DEST THEN <<copy>>
              ELSE <<(<<"barrier", r, old, STATE_COPY_DEST>>), copy,
                     (<<"barrier", r, STATE_COPY_DEST, old>>)>>

\* C8, witness: an upload to a texture in the shader-read state has been made on
\* the streaming path, and one on the staging path can be made
C8_Witness ==
  \E t \in Textures :
    /\ tex[t].state = STATE_PIXEL_SHADER_RESOURCE
    /\ "commit" \in KindsOf(log)
    /\ Len(Commands(log)) = 3
    /\ Commands(log)[2] = <<"copy", tex[t].resource, STATE_COPY_DEST>>
    /\ \E i \in LoadInputs :
         LoadWith(t, i).ret /\ "staging_create" \in KindsOf(LoadWith(t, i).log)

\* C9: on the streaming path LoadData attempts the reservation once or twice.
\* After a first attempt that succeeds the command list is not submitted; after
\* one that fails it is submitted exactly once, between the two attempts, and
\* the second attempt asks for the same size and alignment; when the second
\* fails too, LoadData returns failure and does nothing more.
C9_ReservationRetriedOnce ==
  \A t \in Textures : \A i \in LoadInputs :
    LET w == LoadWith(t, i)
        rs == OfKind(w.log, {"reserve"})
        xs == OfKind(w.log, {"execute"})
    IN StrideTimesHeight(t, i) < GetSize =>
         /\ Len(rs) \in {1, 2}
         /\ rs[1].size = StrideTimesHeight(t, i)
         /\ rs[1].ok => Len(rs) = 1 /\ Len(xs) = 0
         /\ ~rs[1].ok =>
              /\ Len(rs) = 2 /\ Len(xs) = 1
              /\ [k \in 1..3 |-> w.log[k].kind] = <<"reserve", "execute", "reserve">>
              /\ rs[2].size = rs[1].size /\ rs[2].align = rs[1].align
              /\ ~rs[2].ok => ~w.ret /\ Len(w.log) = 3
              /\ rs[2].ok => w.ret

\* C9, witness: a streaming upload whose first reservation failed has been
\* made after one submission, and one whose both reservations fail can be made
C9_Witness ==
  \E t \in Textures :
    /\ Len(log) > 3
    /\ ~log[1].ok /\ log[2].kind = "execute" /\ log[3].kind = "reserve" /\ log[3].ok
    /\ \E i \in LoadInputs :
         /\ ~LoadWith(t, i).ret
         /\ Len(OfKind(LoadWith(t, i).log, {"reserve"})) = 2

\* C10: when LoadData returns failure, no field of the texture object has
\* changed, no barrier and no copy has been recorded and the stream buffer's
\* write cursor is where it was.
C10_LoadDataFailureLeavesTexture ==
  \A t \in Textures : \A i \in LoadInputs :
    LET w == LoadWith(t, i)
    IN ~w.ret =>
         /\ w.tex = tex
         /\ KindsOf(w.log) \cap {"barrier", "copy", "commit", "write"} = {}
         /\ w.sbOffset = sbOffset

\* C10, witness: the write cursor has advanced, the texture is not in the
\* copy-destination state, and LoadData can fail in each of its three ways
C10_Witness ==
  \E t \in Textures :
    /\ sbOffset > 0
    /\ tex[t].state # STATE_COPY_DEST
    /\ \E i \in LoadInputs :
         ~LoadWith(t, i).ret /\ "reserve" \in KindsOf(LoadWith(t, i).log)
    /\ \E i \in LoadInputs :
         ~LoadWith(t, i).ret /\ KindsOf(LoadWith(t, i).log) = {"staging_create"}
    /\ \E i \in LoadInputs :
         ~LoadWith(t, i).ret /\ "staging_write" \in KindsOf(LoadWith(t, i).log)

\* C11: a LoadData that succeeds on the staging path creates exactly one
\* staging texture and destroys it exactly once, not deferred, after the copy
\* has been recorded: nothing is handed to the deferred destruction list and
\* the staging resource is released when LoadData returns. (The original
\* claim.)
C11_StagingDestroyedAtOnce ==
  \A t \in Textures : \A i \in LoadInputs :
    LET w == LoadWith(t, i)
        creates == OfKind(w.log, {"staging_create"})
        destroys == OfKind(w.log, {"staging_destroy"})
        after == OfKind(w.log, {"copy", "staging_destroy"})
    IN w.ret /\ StrideTimesHeight(t, i) >= GetSize =>
         /\ Len(creates) = 1
         /\ Len(destroys) = 1
         /\ [k \in DOMAIN after |-> after[k].kind] = <<"copy", "staging_destroy">>
         /\ destroys[1].res = creates[1].res
         /\ ~destroys[1].defer
         /\ w.queue = queue
         /\ w.refs = refs

\* the descriptor handles object o holds
HandlesOf(o) == {d \in {o.srv_descriptor, o.rtv_or_dsv_descriptor} : Valid(d)}

\* no resource and no descriptor is held by two live objects
NoSharedHandle ==
  \A t1 \in Objects : \A t2 \in Objects \ {t1} :
    /\ tex[t1].resource # 0 => tex[t1].resource # tex[t2].resource
    /\ HandlesOf(tex[t1]) \cap HandlesOf(tex[t2]) = {}

\* the destination holds what the source held and the source is empty
Transferred(w, dst, src) ==
  /\ w.tex[dst].resource = tex[src].resource
  /\ w.tex[dst].srv_descriptor = tex[src].srv_descriptor
  /\ w.tex[dst].rtv_or_dsv_descriptor = tex[src].rtv_or_dsv_descriptor
  /\ w.tex[src].resource = 0
  /\ CanonicalEmpty(w.tex[src])

\* the two moves, in every state they can be made in
MovesTransfer ==
  \A src \in Objects : \A dst \in Tex \ {src} :
    IF alive[dst]
    THEN LET w == MoveAssign(World, dst, src)
         IN /\ Transferred(w, dst, src)
            /\ BagCardinality(w.queue) = BagCardinality(queue) + OwnedHandles(tex[dst])
            /\ w.heap = heap
    ELSE Transferred(MoveConstruct(World, dst, src), dst, src)

\* C12: the moves transfer the resource and both descriptors to the
\* destination and leave the source canonically empty; move assignment hands
\* what the destination owned to deferred destruction; and no resource and no
\* descriptor is ever held by two live objects. (The original claim.)
C12_MovesTransferOwnership == MovesTransfer /\ NoSharedHandle

\* C13: after a successful Create the tracked state, and the state the
\* resource was created in, is render-target when a render-target format was
\* given, depth-write when a depth-stencil format (and no render-target
\* format) was given, and shader-resource otherwise, whether or not a sampled
\* view was asked for; the depth-view flag is set exactly in the depth-write
\* case.
C13_CreateInitialState ==
  \A t \in Objects : \A i \in CreateInputs :
    LET w == CreateWith(t, i)
        o == w.tex[t]
        rtv == i[3][2] # DXGI_FORMAT_UNKNOWN
        dsv == i[3][3] # DXGI_FORMAT_UNKNOWN
    IN w.ret =>
         /\ rtv => o.state = STATE_RENDER_TARGET
         /\ ~rtv /\ dsv => o.state = STATE_DEPTH_WRITE
         /\ ~rtv /\ ~dsv => o.state = STATE_PIXEL_SHADER_RESOURCE
         /\ o.is_depth_view <=> (~rtv /\ dsv)
         /\ w.resstate[o.resource] = o.state

\* C13, witness: an object created with a depth-stencil view and no sampled
\* view, on which a Create with a sampled view alone succeeds and one with a
\* render-target view succeeds
C13_Witness ==
  \E t \in Objects :
    /\ tex[t].state = STATE_DEPTH_WRITE /\ tex[t].is_depth_view
    /\ IsValid(tex[t]) /\ resstate[tex[t].resource] = STATE_DEPTH_WRITE
    /\ ~Valid(tex[t].srv_descriptor)
    /\ \E i \in CreateInputs :
         /\ CreateWith(t, i).ret
         /\ CreateWith(t, i).tex[t].state = STATE_PIXEL_SHADER_RESOURCE
         /\ i[3][1] # DXGI_FORMAT_UNKNOWN
    /\ \E i \in CreateInputs :
         /\ CreateWith(t, i).ret
         /\ CreateWith(t, i).tex[t].state = STATE_RENDER_TARGET

\* dimensions at the edges of the allowed ranges: the least, the maxima, and
\* each maximum alone
EdgeDims ==
  {<<1, 1, 1, 1, 1>>, <<MAX_WIDTH, MAX_HEIGHT, MAX_LAYERS, MAX_LEVELS, MAX_SAMPLES>>,
   <<MAX_WIDTH, 1, 1, 1, 1>>, <<1, MAX_HEIGHT, 1, 1, 1>>, <<1, 1, MAX_LAYERS, 1, 1>>,
   <<1, 1, 1, MAX_LEVELS, 1>>, <<1, 1, 1, 1, MAX_SAMPLES>>, <<256, 257, 2, 3, 4>>}

\* arguments of Create with these dimensions
EdgeInputs ==
  {<<d, "R8G8B8A8_UNORM", v, TRUE>> :
     d \in EdgeDims,
     v \in {<<"R8G8B8A8_UNORM", "R8G8B8A8_UNORM", DXGI_FORMAT_UNKNOWN>>,
            <<DXGI_FORMAT_UNKNOWN, DXGI_FORMAT_UNKNOWN, "D16_UNORM">>}}

\* the device and the heap managers can give what the arguments i ask for
CanAllocate(i) ==
  /\ i[4]
  /\ \E r \in Res : refs[r] = 0
  /\ i[3][1] # DXGI_FORMAT_UNKNOWN => heap["SRV"] # Slots
  /\ i[3][2] # DXGI_FORMAT_UNKNOWN => heap["RTV"] # Slots
  /\ i[3][2] = DXGI_FORMAT_UNKNOWN /\ i[3][3] # DXGI_FORMAT_UNKNOWN => heap["DSV"] # Slots

\* C14: for dimensions within the maxima, when the resource and the
\* descriptors can be allocated, Create succeeds, the object is valid, and
\* its width, height, layers, levels and samples, and those of the description
\* the resource was created with, are the arguments.
C14_CreateStoresDimensions ==
  \A t \in Objects : \A i \in EdgeInputs \cup CreateInputs :
    LET w == CreateWith(t, i)
        o == w.tex[t]
        desc == w.resdesc[o.resource]
        d == i[1]
    IN DimsValid(d) /\ CanAllocate(i) =>
         /\ w.ret
         /\ IsValid(o)
         /\ <<o.width, o.height, o.layers, o.levels, o.samples>> = d
         /\ <<desc.Width, desc.Height, desc.DepthOrArraySize, desc.MipLevels,
              desc.SampleCount>> = d

\* C14, witness: an object that holds a texture, on which Create with every
\* dimension at its maximum succeeds
C14_Witness ==
  \E t \in Objects :
    /\ IsValid(tex[t])
    /\ tex[t].width = 256
    /\ \E i \in EdgeInputs :
         /\ i[1] = <<MAX_WIDTH, MAX_HEIGHT, MAX_LAYERS, MAX_LEVELS, MAX_SAMPLES>>
         /\ CanAllocate(i)
         /\ CreateWith(t, i).tex[t].samples = MAX_SAMPLES

\* pitch * height, the product of the integers, as units of 256 bytes and
\* the bytes left
Product(pitch, height) ==
  LET lo == (pitch % PITCH_ALIGNMENT) * height
  IN [units |-> (pitch \div PITCH_ALIGNMENT) * height + lo \div PITCH_ALIGNMENT,
      bytes |-> lo % PITCH_ALIGNMENT]

Bytes(size) == size.units * PITCH_ALIGNMENT + size.bytes

\* the offset in the source of the byte that the memcpy calls ops leave at
\* offset k of the destination; -1 when they write none there
SourceOf(ops, k) ==
  LET on == {j \in DOMAIN ops : ops[j].dst <= k /\ k < ops[j].dst + Bytes(ops[j].size)}
      last == CHOOSE j \in on : \A j2 \in on : j2 <= j
  IN IF on = {} THEN -1 ELSE ops[last].src + (k - ops[last].dst)

\* C15: with equal strides CopyToUploadBuffer copies stride x height bytes in
\* one block, so that the destination is the source byte for byte; with
\* different strides it copies min(source stride, destination stride) bytes
\* for each of the height rows, row r from offset r x source stride to offset
\* r x destination stride, and writes no other byte of the destination. (The
\* original claim.)
C15_RowCopy ==
  copy_ops # <<>> =>
    LET ops == copy_ops[1]
        sp == copy_args[1]
        h == copy_args[2]
        dp == copy_args[3]
        m == IF sp < dp THEN sp ELSE dp
    IN IF sp = dp
       THEN /\ ops = <<Memcpy(0, 0, Product(sp, h))>>
            /\ h <= MaxRows =>
                 \A k \in 0..(sp * (h + 1)) :
                   SourceOf(ops, k) = IF k < sp * h THEN k ELSE -1
       ELSE /\ Len(ops) = h
            /\ \A r \in 1..h : ops[r] = Memcpy((r - 1) * dp, (r - 1) * sp, Size(m))
            /\ \A r \in 0..(h - 1) : \A c \in 0..(dp - 1) :
                 SourceOf(ops, r * dp + c) = IF c < m THEN r * sp + c ELSE -1

\* the same, of the small buffers only
C15_RowCopySmall == copy_args[2] <= MaxRows => C15_RowCopy

\* the index of the first entry of l whose kind is in K; 0 when there is none
FirstOf(l, K) ==
  LET on == {k \in DOMAIN l : l[k].kind \in K}
  IN IF on = {} THEN 0 ELSE CHOOSE k \in on : \A k2 \in on : k <= k2

\* C16: a successful streaming upload does, in this order: the reservation
\* that succeeds (the first, or the second after one submission of the command
\* list), the write of the rows at the reserved offset, the commit of exactly
\* the upload size, which advances the write cursor by that size, and then the
\* copy from the stream buffer, whose source offset is the offset the rows
\* were written at (the cursor before the commit).
C16_StreamingOrder ==
  \A t \in Textures : \A i \in LoadInputs :
    LET w == LoadWith(t, i)
        l == w.log
        size == StrideTimesHeight(t, i)
        p == FirstOf(l, {"write"})
        c == FirstOf(l, {"copy"})
    IN w.ret /\ size < GetSize =>
         /\ p \in {2, 4}
         /\ [k \in 1..(p - 1) |-> <<l[k].kind, l[k].ok>>] \in
              {<< <<"reserve", TRUE>> >>,
               << <<"reserve", FALSE>>, <<"execute", TRUE>>, <<"reserve", TRUE>> >>}
         /\ l[p + 1].kind = "commit"
         /\ c > p + 1
         /\ \A k \in (p + 2)..Len(l) : l[k].kind \in {"barrier", "copy"}
         /\ l[p].size = size /\ l[p + 1].size = size
         /\ l[p + 1].offset = l[p].offset
         /\ w.sbOffset = l[p].offset + size
         /\ l[c].from = "stream" /\ l[c].offset = l[p].offset

\* C16, witness: a streaming upload has been made at an offset above zero
\* after a reservation that failed once, and one can be made whose first
\* reservation succeeds
C16_Witness ==
  \E t \in Textures :
    /\ Len(log) > 5
    /\ ~log[1].ok /\ log[3].ok /\ log[4].kind = "write" /\ log[5].kind = "commit"
    /\ \E k \in DOMAIN log : log[k].kind = "copy" /\ log[k].offset = log[4].offset
    /\ sbOffset = log[4].offset + log[5].size
    /\ \E i \in LoadInputs :
         LET w == LoadWith(t, i)
         IN w.ret /\ w.log[1].kind = "reserve" /\ w.log[1].ok /\ w.log[2].offset > 0

\* the number of live textures that hold slot i of pool p
Holders(p, i) ==
  Cardinality({t \in Objects : [index |-> i, heap |-> p] \in HandlesOf(tex[t])})

\* the number of times slot i of pool p is pending in the retirement queue,
\* whichever heap manager it was queued with
PendingSlot(p, i) ==
  LET n(m) == CopiesIn([kind |-> "descriptor", pool |-> m, index |-> i,
                        origin |-> p, res |-> 0], queue)
  IN n("SRV") + n("RTV") + n("DSV")

\* the number of live textures that own resource r
Owners(r) == Cardinality({t \in Objects : tex[t].resource = r})

\* the number of times resource r is pending in the retirement queue
PendingResource(r) ==
  CopiesIn([kind |-> "resource", pool |-> "", index |-> 0, origin |-> "", res |-> r],
           queue)

\* C17: no descriptor and no resource is leaked or freed twice: a slot that
\* is allocated from its pool is held by exactly one live texture or pending
\* in the retirement queue exactly once, a slot that is back in its pool is
\* neither held nor pending, and the references to a resource are those of
\* the textures that own it and of the retirement queue.
C17_NoLeakNoDoubleFree ==
  /\ \A p \in Pools : \A i \in Slots :
       Holders(p, i) + PendingSlot(p, i) = (IF i \in heap[p] THEN 1 ELSE 0)
  /\ \A r \in Res : refs[r] = Owners(r) + PendingResource(r)

\* C18: in every state the depth-view flag of a live texture is true exactly
\* when the render-target or depth-stencil descriptor it holds was allocated
\* from the depth-stencil pool, and every descriptor pending in the retirement
\* queue is queued with the heap manager of the pool it was allocated from.
C18_DepthFlagMatchesPool ==
  /\ \A t \in Objects :
       tex[t].is_depth_view <=>
         (Valid(tex[t].rtv_or_dsv_descriptor) /\ tex[t].rtv_or_dsv_descriptor.heap = "DSV")
  /\ \A e \in BagToSet(queue) : e.kind = "descriptor" => e.pool = e.origin

\* C19: the usage state that the owner of a resource tracks is the state the
\* resource is in after the last barrier recorded for it (the state it was
\* created or adopted in when there is none), so that the from-state of the
\* next barrier continues the chain; a move carries the tracked state along.
C19_TrackedStateIsResourceState ==
  \A t \in Textures : tex[t].state = resstate[tex[t].resource]

\* upload rectangles (width, height) within the maximum dimensions
UploadRects ==
  {<<1, 1>>, <<64, 3>>, <<MAX_WIDTH, 1>>, <<1, MAX_HEIGHT>>, <<MAX_WIDTH, 16383>>,
   <<MAX_WIDTH, 16384>>, <<MAX_WIDTH, 32768>>, <<MAX_WIDTH, MAX_HEIGHT>>}

\* C20: for every upload rectangle within the maximum dimensions and every
\* pixel size, the upload size computed in u32 is the product of the aligned
\* row stride and the height, without a wrap modulo 2^32; LoadData chooses
\* its path by that size, and the reservation, the write and the commit of
\* the streaming path all use it.
C20_UploadSizeExact ==
  \A t \in Textures : \A r \in UploadRects :
    LET i == <<r[1], r[2], TRUE, TRUE, TRUE>>
        copy_pitch == AlignUpPow2(r[1] * GetPixelSize(tex[t]), PITCH_ALIGNMENT)
        w == LoadWith(t, i)
    IN /\ UploadSize(copy_pitch, r[2]) = StrideTimesHeight(t, i)
       /\ (KindsOf(w.log) \cap StagingKinds # {}) <=> (StrideTimesHeight(t, i) >= GetSize)
       /\ \A k \in DOMAIN w.log :
            w.log[k].kind \in {"reserve", "write", "commit"} =>
              w.log[k].size = StrideTimesHeight(t, i)

====
